---- MODULE Spec2Model ----
(***************************************************************************)
(* The report command of wily (src/wily/commands/report.py) as a state     *)
(* machine: metric resolution, the per-archiver delta loop, the row list,  *)
(* and the console / HTML renderers.                                       *)
(***************************************************************************)
EXTENDS Integers, Sequences, FiniteSets, TLC

(* ------------------------------ bounds ------------------------------ *)

\* Longest metrics argument.
MaxMetrics == 2
\* Number of revisions held by the history store, over all archivers.
NumRevisions == 3
\* The numbers a lookup returns: zero, and two values for deltas of either sign.
Numbers == {0, 1, 2}
\* Largest number of value lookups of one run (|metrics| * rows); Init keeps to
\* the arguments and histories within it.
MaxCells == 4

\* wily.MAX_MESSAGE_WIDTH
MAX_MESSAGE_WIDTH == 50

\* The archivers of the cache, in the order of state.archivers.
Archivers == <<"git", "fs">>

VARIABLES
  metrics,       \* argument: list of <<operator, key>> identifiers
  n,             \* argument: number of revisions per archiver
  owner,         \* history store: the archiver of each revision (by date)
  pc,            \* position in report()
  mi,            \* index of the metric being resolved
  metric_metas,  \* list of resolved metas
  archq,         \* archivers still to visit
  archiver,      \* current archiver
  history,       \* revisions of the current archiver still to visit
  rev,           \* current revision (its date)
  last,          \* last value seen per key, current archiver
  vals,          \* cells of the current row
  data,          \* rows accumulated so far
  fetched,       \* the rev.get calls made so far and their outcomes
  format,        \* argument, drawn where line 140 reads it
  output,        \* argument, drawn where line 142 reads it
  stdout,        \* what print() received
  fs             \* directories and files created

vars == <<metrics, n, owner, pc, mi, metric_metas, archq, archiver, history,
          rev, last, vals, data, fetched, format, output, stdout, fs>>

(* ----------------------------- helpers ------------------------------ *)

RECURSIVE Reverse(_)
\* s[::-1]
Reverse(s) == IF s = <<>> THEN <<>> ELSE Append(Reverse(Tail(s)), Head(s))

\* s[:k] for k >= 0
Take(s, k) == SubSeq(s, 1, IF k < Len(s) THEN k ELSE Len(s))

\* dict.get(key, None)
None == [t |-> "none", v |-> 0]
Get(d, key) == IF key \in DOMAIN d THEN d[key] ELSE None

\* d[key] = value
Put(d, key, value) == [k \in DOMAIN d \cup {key} |-> IF k = key THEN value ELSE d[k]]

(* ------------------------- metric registry -------------------------- *)

\* The metrics the operators register: operator, key, value type, measure.
\* Operators are pluggable and keys are scoped by operator: two of them register
\* the key "loc".
Registry ==
  { [operator |-> "raw", key |-> "loc", type |-> "int",
     measure |-> "AimLow", description |-> "Lines of Code"],
    [operator |-> "sloc", key |-> "loc", type |-> "int",
     measure |-> "Informational", description |-> "Source Lines"],
    [operator |-> "maintainability", key |-> "mi", type |-> "float",
     measure |-> "AimHigh", description |-> "Maintainability Index"],
    [operator |-> "maintainability", key |-> "rank", type |-> "str",
     measure |-> "Informational", description |-> "Maintainability Ranking"] }

\* Identifiers a caller may pass: the registered ones and an unregistered one.
MetricIds == { <<m.operator, m.key>> : m \in Registry } \cup { <<"raw", "bogus">> }

Registered(id) == \E m \in Registry : m.operator = id[1] /\ m.key = id[2]

\* resolve_metric(metric), for a registered identifier
resolve_metric(id) == CHOOSE m \in Registry : m.operator = id[1] /\ m.key = id[2]

\* ANSI colour codes of the delta, by measure
GoodColor(measure) ==
  CASE measure = "AimHigh" -> 32
    [] measure = "AimLow" -> 31
    [] measure = "Informational" -> 33

BadColor(measure) ==
  CASE measure = "AimHigh" -> 31
    [] measure = "AimLow" -> 32
    [] measure = "Informational" -> 33

\* the metric_meta dict built for one identifier
MetricMeta(id) ==
  LET metric == resolve_metric(id) IN
  [ key |-> id[2], operator |-> id[1],
    good_color |-> GoodColor(metric.measure),
    bad_color |-> BadColor(metric.measure),
    title |-> metric.description, type |-> metric.type ]

SwallowUnknown(id) == "archivers"

\* where report() is after resolve_metric raised for an unregistered identifier
AfterUnknown(id) == "raised"

(* -------------------------- history store --------------------------- *)

RECURSIVE RevisionsFrom(_, _)
RevisionsFrom(a, d) ==
  IF d = 0 THEN <<>>
  ELSE IF owner[d] = a THEN <<d>> \o RevisionsFrom(a, d - 1)
       ELSE RevisionsFrom(a, d - 1)

\* state.index[archiver].revisions: newest first; a revision is named by its date
Revisions(a) == RevisionsFrom(a, NumRevisions)

WindowAll(revs, k) == Reverse(revs)

\* revisions[:n][::-1], oldest first
Window(revs, k) == Reverse(Take(revs, k))

Min(a, b) == IF a < b THEN a ELSE b

RECURSIVE RowsUpTo(_, _, _)
\* the rows a run produces for the first i archivers
RowsUpTo(own, k, i) ==
  IF i = 0 THEN 0
  ELSE RowsUpTo(own, k, i - 1)
       + Min(k, Cardinality({d \in 1..NumRevisions : own[d] = Archivers[i]}))

(* ----------------------- values and formatting ---------------------- *)

\* A value is a Python int, float (integral here) or str.
IntVal(x) == [t |-> "int", v |-> x]
FloatVal(x) == [t |-> "float", v |-> x]
StrVal(x) == [t |-> "str", v |-> x]

\* What rev.get can return for a metric, by the type the operator declares.
LookupValues(type) ==
  CASE type = "int" -> { IntVal(x) : x \in Numbers }
    [] type = "float" -> { FloatVal(x) : x \in Numbers }
    [] type = "str" -> { StrVal("A"), StrVal("B") }

\* meta["type"] in (int, float)
IsNumeric(type) == type \in {"int", "float"}

\* bool(x) for None and numbers
Truthy(x) == x.t # "none" /\ x.v # 0

\* a - b on numbers: float as soon as one operand is
Sub(a, b) ==
  [t |-> IF a.t = "float" \/ b.t = "float" THEN "float" ELSE "int", v |-> a.v - b.v]

\* f"{x:n}" of a number (integral floats print without a fraction)
FormatN(x) == ToString(x.v)

\* f"{x}" (str(x)): a float keeps its ".0"
Str(x) ==
  CASE x.t = "int" -> ToString(x.v)
    [] x.t = "float" -> ToString(x.v) \o ".0"
    [] x.t = "str" -> x.v

\* the ANSI escape "\u001b[<code>m"
Esc(code) == "ESC[" \o ToString(code) \o "m"

\* lines 91-99: the delta of a value against last_val
Delta(meta, val, last_val) ==
  IF IsNumeric(meta.type)
  THEN IF Truthy(last_val) THEN Sub(val, last_val) ELSE IntVal(0)
  ELSE IntVal(0)

DeltaColSwapped(meta, delta) ==
  IF delta.v = 0 THEN Str(delta)
  ELSE IF delta.v < 0 THEN Esc(meta.bad_color) \o FormatN(delta) \o Esc(0)
  ELSE Esc(meta.good_color) \o "+" \o FormatN(delta) \o Esc(0)

\* lines 101-106: delta_col
DeltaCol(meta, delta) ==
  IF delta.v = 0 THEN Str(delta)
  ELSE IF delta.v < 0 THEN Esc(meta.good_color) \o FormatN(delta) \o Esc(0)
  ELSE Esc(meta.bad_color) \o "+" \o FormatN(delta) \o Esc(0)

\* lines 108-111: k
Cell(meta, val, delta_col) ==
  IF IsNumeric(meta.type) THEN FormatN(val) \o " (" \o delta_col \o ")"
  ELSE Str(val)

\* line 113: k for a KeyError, whose text is the quoted missing key
NotFoundCell(meta) == "Not found '" \o meta.key \o "'"

\* line 96: last after a successful lookup
UpdateLast(meta, val) ==
  IF IsNumeric(meta.type) THEN Put(last, meta.key, val) ELSE last

\* format_revision(rev.revision.key), rev.revision.author_name, format_date(...)
format_revision(d) == "r" \o ToString(d)
author_name(d) == "author"
format_date(d) == "day" \o ToString(d)

\* rev.revision.message, as a tuple of characters
message(d) == <<"m", "s", "g">>

\* the include_message argument, at its default
include_message == FALSE

\* lines 115-133: the row tuple
Row(d, cells) ==
  IF include_message
  THEN <<format_revision(d), Take(message(d), MAX_MESSAGE_WIDTH), author_name(d),
         format_date(d)>> \o cells
  ELSE <<format_revision(d), author_name(d), format_date(d)>> \o cells

\* lines 134-138
Headers ==
  LET descriptions == [j \in 1..Len(metric_metas) |-> metric_metas[j].title] IN
  IF include_message
  THEN <<"Revision", "Message", "Author", "Date">> \o descriptions
  ELSE <<"Revision", "Author", "Date">> \o descriptions
(* ------------------------------ paths ------------------------------- *)

\* A path string is a tuple of characters; a Path is a root flag and its parts.

RECURSIVE SplitParts(_, _, _)
\* the parts of a path string: split at "/", dropping empty and "." parts
SplitParts(str, i, cur) ==
  LET keep == IF cur = <<>> \/ cur = <<".">> THEN <<>> ELSE <<cur>> IN
  IF i > Len(str) THEN keep
  ELSE IF str[i] = "/" THEN keep \o SplitParts(str, i + 1, <<>>)
       ELSE SplitParts(str, i + 1, Append(cur, str[i]))

\* Path(str)
Path(str) ==
  [root |-> str # <<>> /\ str[1] = "/", parts |-> SplitParts(str, 1, <<>>)]

\* PurePath.name
Name(p) == IF p.parts = <<>> THEN <<>> ELSE p.parts[Len(p.parts)]

\* the index of the last "." of a name, 0 when there is none (str.rfind + 1)
RFindDot(name) ==
  LET dots == {i \in 1..Len(name) : name[i] = "."} IN
  IF dots = {} THEN 0 ELSE CHOOSE i \in dots : \A j \in dots : j <= i

SuffixFromLastDot(p) ==
  LET name == Name(p)
      i == RFindDot(name)
  IN IF 0 < i THEN SubSeq(name, i, Len(name)) ELSE <<>>

\* PurePath.suffix: the last dot must be neither the first nor the last character
Suffix(p) ==
  LET name == Name(p)
      i == RFindDot(name)
  IN IF 1 < i /\ i < Len(name) THEN SubSeq(name, i, Len(name)) ELSE <<>>

\* PurePath.parents[0], for a path with a name
Parent(p) == [root |-> p.root, parts |-> SubSeq(p.parts, 1, Len(p.parts) - 1)]

\* p / q: an absolute q replaces p
Join(p, q) == IF q.root THEN q ELSE [root |-> p.root, parts |-> p.parts \o q.parts]

\* Path.cwd()
Cwd == [root |-> TRUE, parts |-> << <<"w">> >>]

DotHtml == <<".", "h", "t", "m", "l">>
IndexHtml == <<"i", "n", "d", "e", "x">> \o DotHtml
WilyReport == <<"w", "i", "l", "y", "_", "r", "e", "p", "o", "r", "t">>
Css == <<"c", "s", "s">>
NoOutput == <<"None">>

\* The output arguments of the report runs: None and "r.html".
Outputs == { NoOutput, <<"r">> \o DotHtml }

\* The output arguments path resolution is tried on: those, and "", "d/r.html",
\* ".html", "d/.html", "r.html/", "./out", "/t/r.html", "r.htm".
PathInputs ==
  Outputs \cup
  { <<>>, <<"d", "/", "r">> \o DotHtml, DotHtml, <<"d", "/">> \o DotHtml,
    <<"r">> \o DotHtml \o <<"/">>, <<".", "/", "o", "u", "t">>,
    <<"/", "t", "/", "r">> \o DotHtml, <<"r", ".", "h", "t", "m">> }

\* lines 141-152: <<report_path, report_output>>
ReportPaths(out) ==
  IF out # NoOutput /\ out # <<>>
  THEN LET outp == Path(out) IN
       IF Suffix(outp) = DotHtml
       THEN LET report_path == Join(Cwd, Parent(outp)) IN
            <<report_path, Join(report_path, Path(Name(outp)))>>
       ELSE LET report_path == Join(Cwd, outp) IN
            <<report_path, Join(report_path, Path(IndexHtml))>>
  ELSE LET report_path == Join(Cwd, Path(WilyReport)) IN
       <<report_path, Join(report_path, Path(IndexHtml))>>

\* the directories mkdir(parents=True) makes sure exist
WithParents(p) ==
  { [root |-> p.root, parts |-> SubSeq(p.parts, 1, k)] : k \in 0..Len(p.parts) }

RECURSIVE Concat(_)
\* "".join(strs), a text being the sequence of its fragments
Concat(strs) == IF strs = <<>> THEN <<>> ELSE Head(strs) \o Concat(Tail(strs))

\* line 157
TableHeaders(headers) == Concat([j \in 1..Len(headers) |-> <<"<th>", headers[j], "</th>">>])

\* lines 160-163, for one line
TableRow(line) ==
  <<"<tr>">> \o Concat([j \in 1..Len(line) |-> <<"<td>", line[j], "</td>">>]) \o <<"</tr>">>

\* lines 158-163
TableContent(rows) == Concat([i \in 1..Len(rows) |-> TableRow(rows[i])])

\* lines 159 and 182: data[::-1]
Presented(rows) == Reverse(rows)

\* lines 155, 165-167: the template with $headers and $content substituted
Substitute(table_headers, table_content) ==
  <<"<table><thead><tr>">> \o table_headers \o <<"</tr></thead><tbody>">>
    \o table_content \o <<"</tbody></table>">>

(* ----------------------------- behaviour ---------------------------- *)

EmptyDict == [k \in {} |-> None]

MetricLists == UNION { [1..k -> MetricIds] : k \in 0..MaxMetrics }

Init ==
  /\ metrics \in MetricLists
  /\ n \in 0..NumRevisions
  /\ owner \in [1..NumRevisions -> {Archivers[i] : i \in 1..Len(Archivers)}]
  /\ Len(metrics) * RowsUpTo(owner, n, Len(Archivers)) <= MaxCells
  /\ pc = "resolve"
  /\ mi = 1
  /\ metric_metas = <<>>
  /\ archq = <<>>
  /\ archiver = "none"
  /\ history = <<>>
  /\ rev = 0
  /\ last = EmptyDict
  /\ vals = <<>>
  /\ data = <<>>
  /\ fetched = <<>>
  /\ format = "unread"
  /\ output = <<"unread">>
  /\ stdout = <<>>
  /\ fs = [dirs |-> WithParents(Cwd), files |-> {}]

\* lines 52-73, one iteration with a registered identifier
ResolveMetric ==
  /\ pc = "resolve"
  /\ mi <= Len(metrics)
  /\ Registered(metrics[mi])
  /\ metric_metas' = Append(metric_metas, MetricMeta(metrics[mi]))
  /\ mi' = mi + 1
  /\ UNCHANGED <<metrics, n, owner, pc, archq, archiver, history, rev, last,
                 vals, data, fetched, format, output, stdout, fs>>

\* line 54 raising: report() ends there
ResolveUnknown ==
  /\ pc = "resolve"
  /\ mi <= Len(metrics)
  /\ ~Registered(metrics[mi])
  /\ pc' = AfterUnknown(metrics[mi])
  /\ UNCHANGED <<metrics, n, owner, mi, metric_metas, archq, archiver, history,
                 rev, last, vals, data, fetched, format, output, stdout, fs>>

\* line 75, reached when the loop over metrics ends
OpenState ==
  /\ pc = "resolve"
  /\ mi > Len(metrics)
  /\ archq' = Archivers
  /\ pc' = "archivers"
  /\ UNCHANGED <<metrics, n, owner, mi, metric_metas, archiver, history, rev,
                 last, vals, data, fetched, format, output, stdout, fs>>

\* lines 76-79
BeginArchiver ==
  /\ pc = "archivers"
  /\ archq # <<>>
  /\ archiver' = Head(archq)
  /\ archq' = Tail(archq)
  /\ history' = Window(Revisions(Head(archq)), n)
  /\ last' = EmptyDict
  /\ pc' = "revisions"
  /\ UNCHANGED <<metrics, n, owner, mi, metric_metas, rev, vals, data, fetched,
                 format, output, stdout, fs>>

\* the loop over archivers ends
EndArchivers ==
  /\ pc = "archivers"
  /\ archq = <<>>
  /\ pc' = "render"
  /\ UNCHANGED <<metrics, n, owner, mi, metric_metas, archq, archiver, history,
                 rev, last, vals, data, fetched, format, output, stdout, fs>>

\* lines 80-81
BeginRevision ==
  /\ pc = "revisions"
  /\ history # <<>>
  /\ rev' = Head(history)
  /\ history' = Tail(history)
  /\ vals' = <<>>
  /\ pc' = "metrics"
  /\ UNCHANGED <<metrics, n, owner, mi, metric_metas, archq, archiver, last,
                 data, fetched, format, output, stdout, fs>>

\* the loop over one archiver's history ends
EndRevisions ==
  /\ pc = "revisions"
  /\ history = <<>>
  /\ pc' = "archivers"
  /\ UNCHANGED <<metrics, n, owner, mi, metric_metas, archq, archiver, history,
                 rev, last, vals, data, fetched, format, output, stdout, fs>>

\* line 87: rev.get reads the cache, so the same revision, operator and key give
\* the same outcome each time they are asked for
SameAnswer(meta, found, val) ==
  \A j \in 1..Len(fetched) :
    ( /\ fetched[j].archiver = archiver
      /\ fetched[j].rev = rev
      /\ metric_metas[fetched[j].col].operator = meta.operator
      /\ metric_metas[fetched[j].col].key = meta.key )
    => fetched[j].found = found /\ fetched[j].val = val

\* lines 82-111 and 114: one metric of the revision, rev.get returning val
Fetch ==
  /\ pc = "metrics"
  /\ Len(vals) < Len(metric_metas)
  /\ LET meta == metric_metas[Len(vals) + 1] IN
     \E val \in LookupValues(meta.type) :
       LET last_val == Get(last, meta.key)
           delta == Delta(meta, val, last_val)
           k == Cell(meta, val, DeltaCol(meta, delta))
       IN /\ SameAnswer(meta, TRUE, val)
          /\ last' = UpdateLast(meta, val)
          /\ vals' = Append(vals, k)
          /\ fetched' = Append(fetched, [archiver |-> archiver, rev |-> rev,
                                         col |-> Len(vals) + 1, found |-> TRUE,
                                         val |-> val])
  /\ UNCHANGED <<metrics, n, owner, pc, mi, metric_metas, archq, archiver,
                 history, rev, data, format, output, stdout, fs>>

\* lines 82-87 and 112-114: rev.get raising KeyError
FetchNotFound ==
  /\ pc = "metrics"
  /\ Len(vals) < Len(metric_metas)
  /\ LET meta == metric_metas[Len(vals) + 1] IN
       /\ SameAnswer(meta, FALSE, None)
       /\ vals' = Append(vals, NotFoundCell(meta))
       /\ fetched' = Append(fetched, [archiver |-> archiver, rev |-> rev,
                                      col |-> Len(vals) + 1, found |-> FALSE,
                                      val |-> None])
  /\ UNCHANGED <<metrics, n, owner, pc, mi, metric_metas, archq, archiver,
                 history, rev, last, data, format, output, stdout, fs>>

\* lines 115-133, once every metric of the revision has its cell
AppendRow ==
  /\ pc = "metrics"
  /\ Len(vals) = Len(metric_metas)
  /\ data' = Append(data, Row(rev, vals))
  /\ pc' = "revisions"
  /\ UNCHANGED <<metrics, n, owner, mi, metric_metas, archq, archiver, history,
                 rev, last, vals, fetched, format, output, stdout, fs>>

\* lines 178-184
RenderConsole ==
  /\ pc = "render"
  /\ format' = "console"
  /\ stdout' = <<[headers |-> Headers, rows |-> Presented(data)]>>
  /\ pc' = "done"
  /\ UNCHANGED <<metrics, n, owner, mi, metric_metas, archq, archiver, history,
                 rev, last, vals, data, fetched, output, fs>>

\* lines 140-177, for an output argument out; after copytree the css directory
\* exists, copied now or there already (FileExistsError is passed over)
WriteHtml(out) ==
  LET report_path == ReportPaths(out)[1]
      report_output == ReportPaths(out)[2]
      text == Substitute(TableHeaders(Headers), TableContent(Presented(data)))
      css == Join(report_path, Path(Css))
  IN /\ pc = "render"
     /\ format' = "html"
     /\ output' = out
     /\ fs' = [dirs |-> fs.dirs \cup WithParents(report_path) \cup {css},
               files |-> fs.files \cup {[path |-> report_output, text |-> text]}]
     /\ pc' = "done"
     /\ UNCHANGED <<metrics, n, owner, mi, metric_metas, archq, archiver, history,
                    rev, last, vals, data, fetched, stdout>>

RenderHtml == \E out \in Outputs : WriteHtml(out)

Next ==
  \/ ResolveMetric
  \/ ResolveUnknown
  \/ OpenState
  \/ BeginArchiver
  \/ EndArchivers
  \/ BeginRevision
  \/ EndRevisions
  \/ Fetch
  \/ FetchNotFound
  \/ AppendRow
  \/ RenderConsole
  \/ RenderHtml

Spec == Init /\ [][Next]_vars

(* ------------------- path resolution on its own --------------------- *)

\* report() at line 140 of a run that built no row (n = 0)
InitPaths ==
  /\ metrics \in { ms \in MetricLists : \A k \in 1..Len(ms) : Registered(ms[k]) }
  /\ n = 0
  /\ owner \in [1..NumRevisions -> {Archivers[i] : i \in 1..Len(Archivers)}]
  /\ pc = "render"
  /\ mi = Len(metrics) + 1
  /\ metric_metas = [k \in 1..Len(metrics) |-> MetricMeta(metrics[k])]
  /\ archq = <<>>
  /\ archiver = Archivers[Len(Archivers)]
  /\ history = <<>>
  /\ rev = 0
  /\ last = EmptyDict
  /\ vals = <<>>
  /\ data = <<>>
  /\ fetched = <<>>
  /\ format = "unread"
  /\ output = <<"unread">>
  /\ stdout = <<>>
  /\ fs = [dirs |-> WithParents(Cwd), files |-> {}]

RenderHtmlAny == \E out \in PathInputs : WriteHtml(out)

NextPaths ==
  \/ RenderConsole
  \/ RenderHtmlAny

SpecPaths == InitPaths /\ [][NextPaths]_vars

(* ---------------------- vocabulary of the properties ---------------- *)

\* the meta of the i-th lookup
MetaOf(i) == metric_metas[fetched[i].col]

\* the columns before the cells of a row
CellOffset == IF include_message THEN 4 ELSE 3

\* the cell the i-th lookup produced: in its row once appended, in vals before
CellOf(i) ==
  LET r == ((i - 1) \div Len(metric_metas)) + 1 IN
  IF r <= Len(data) THEN data[r][CellOffset + fetched[i].col] ELSE vals[fetched[i].col]

\* a successful lookup of a Numeric metric
NumericHit(i) == fetched[i].found /\ IsNumeric(MetaOf(i).type)

\* lookups i and j are for the same metric: same operator and same key
SameMetric(i, j) ==
  MetaOf(i).operator = MetaOf(j).operator /\ MetaOf(i).key = MetaOf(j).key

\* the successful lookups of the metric of i at earlier revisions of its archiver
Earlier(i) ==
  { j \in 1..(i - 1) : /\ fetched[j].archiver = fetched[i].archiver
                       /\ fetched[j].rev # fetched[i].rev
                       /\ SameMetric(i, j)
                       /\ fetched[j].found }

\* the previous value of the metric of i in its archiver's window, None if none
PrevVal(i) ==
  LET earlier == Earlier(i) IN
  IF earlier = {} THEN None
  ELSE fetched[CHOOSE j \in earlier : \A k \in earlier : k <= j].val

\* the delta of the spec: against a non-zero previous value, else 0
Against(val, prev) == IF prev.t # "none" /\ prev.v # 0 THEN val.v - prev.v ELSE 0

\* the differences of two numbers, and the colour codes
Differences == { a - b : a, b \in Numbers }
Codes == { m.good_color : m \in { MetricMeta(<<r.operator, r.key>>) : r \in Registry } }
           \cup { m.bad_color : m \in { MetricMeta(<<r.operator, r.key>>) : r \in Registry } }

\* a non-zero delta d in the colour of a code: signed, a positive one with "+"
Coloured ==
  [code \in Codes, d \in Differences |->
     IF d < 0 THEN Esc(code) \o ToString(d) \o Esc(0)
     ELSE Esc(code) \o "+" \o ToString(d) \o Esc(0)]

ZeroTexts == {"0", "0.0"}

\* the cell text "<value> (<delta text>)"
CellText ==
  [v \in Numbers, t \in ZeroTexts \cup { Coloured[c, d] : c \in Codes, d \in Differences } |->
     ToString(v) \o " (" \o t \o ")"]

\* the texts that show a delta d for a meta
DeltaTexts(meta, d) ==
  IF d = 0 THEN ZeroTexts
  ELSE IF d < 0 THEN {Coloured[meta.good_color, d]}
  ELSE {Coloured[meta.bad_color, d]}

\* the cell of lookup i is "<value> (<delta d>)"
Shows(i, d) ==
  \E t \in DeltaTexts(MetaOf(i), d) : CellOf(i) = CellText[fetched[i].val.v, t]

\* i is a lookup at the first revision processed for its archiver
FirstRevision(i) ==
  \A j \in 1..(i - 1) :
    fetched[j].archiver = fetched[i].archiver => fetched[j].rev = fetched[i].rev

\* another operator's metric with the key of lookup i is in the metrics list
SharesKey(i) ==
  \E c \in 1..Len(metric_metas) :
    metric_metas[c].key = MetaOf(i).key /\ metric_metas[c].operator # MetaOf(i).operator

\* i is the first successful lookup of its metric after a not-found one
AfterMiss(i) ==
  \E j \in 1..(i - 1) :
    /\ fetched[j].archiver = fetched[i].archiver
    /\ SameMetric(i, j)
    /\ ~fetched[j].found
    /\ \A k \in (j + 1)..(i - 1) :
         (fetched[k].archiver = fetched[i].archiver /\ SameMetric(i, k))
           => ~fetched[k].found

\* the text of the Revision column, by date
RevisionText == [d \in 1..NumRevisions |-> format_revision(d)]

\* the date of the revision a row is for
DateOf(row) == CHOOSE d \in 1..NumRevisions : RevisionText[d] = row[1]

DataDates == [r \in 1..Len(data) |-> DateOf(data[r])]

\* the revisions the store holds for an archiver, and the n most recent of them
Owned(a) == {d \in 1..NumRevisions : owner[d] = a}
InWindow(a) ==
  LET owned == Owned(a) IN {d \in owned : Cardinality({e \in owned : e > d}) < n}

\* the windows of all archivers
Windows == [i \in 1..Len(Archivers) |-> InWindow(Archivers[i])]
WindowOf(wins, a) == wins[CHOOSE i \in 1..Len(Archivers) : Archivers[i] = a]

RECURSIVE Ascending(_)
Ascending(S) ==
  IF S = {} THEN <<>>
  ELSE LET m == CHOOSE x \in S : \A y \in S : x <= y IN <<m>> \o Ascending(S \ {m})

RECURSIVE ExpectedUpTo(_, _)
\* the dates of the rows of the first i archivers, in the order they are built
ExpectedUpTo(wins, i) ==
  IF i = 0 THEN <<>> ELSE ExpectedUpTo(wins, i - 1) \o Ascending(wins[i])

ExpectedDates(wins) == ExpectedUpTo(wins, Len(Archivers))

IsPrefix(s, t) == Len(s) <= Len(t) /\ s = SubSeq(t, 1, Len(s))

\* nothing of the report has happened: no lookup, no row, no output
NothingDone ==
  /\ fetched = <<>>
  /\ data = <<>>
  /\ vals = <<>>
  /\ stdout = <<>>
  /\ fs = [dirs |-> WithParents(Cwd), files |-> {}]

Unknowns == {k \in 1..Len(metrics) : ~Registered(metrics[k])}

\* the rows in every order
Orderings(rows) ==
  { [i \in 1..Len(rows) |-> rows[f[i]]] : f \in Permutations(1..Len(rows)) }

NewestFirst(rows) ==
  \A i, j \in 1..Len(rows) : i < j => DateOf(rows[i]) > DateOf(rows[j])

\* the output, console or HTML, presents exactly these rows in this order
OutputShows(rows) ==
  IF format = "console"
  THEN stdout = <<[headers |-> Headers, rows |-> rows]>>
  ELSE \E f \in fs.files :
         f.text = Substitute(TableHeaders(Headers), TableContent(rows))

(* ------------------------------ claims ------------------------------ *)

\* C1: for a Numeric metric, a successful lookup whose metric has a non-zero
\* previous value in the same archiver's window shows the delta current - previous.
C1Original ==
  \A i \in 1..Len(fetched) :
    (NumericHit(i) /\ PrevVal(i).t # "none" /\ PrevVal(i).v # 0)
      => Shows(i, fetched[i].val.v - PrevVal(i).v)

\* C2: for a Numeric metric the delta shown is 0 at the first revision of an
\* archiver's window and whenever the preceding value of the metric is absent or zero.
C2Original ==
  \A i \in 1..Len(fetched) :
    (NumericHit(i) /\ (PrevVal(i).t = "none" \/ PrevVal(i).v = 0)) => Shows(i, 0)

\* C3: a not-found lookup does not end report, gives the cell "Not found <detail>",
\* and leaves the baseline alone: the next successful lookup of the metric shows
\* its delta against the last value successfully fetched for it.
C3Original ==
  /\ fetched # <<>> => pc # "raised"
  /\ \A i \in 1..Len(fetched) :
       /\ ~fetched[i].found => CellOf(i) = "Not found '" \o MetaOf(i).key \o "'"
       /\ (NumericHit(i) /\ AfterMiss(i))
            => Shows(i, Against(fetched[i].val, PrevVal(i)))

\* C4: the rows are presented newest first, in the console and in the HTML
\* output, over all archivers of the report.
C4Original ==
  pc = "done" => \E rows \in Orderings(data) : NewestFirst(rows) /\ OutputShows(rows)

\* C5: the last-seen map is empty when an archiver's history starts, and the
\* first revision processed for an archiver shows delta 0 for every Numeric metric.
C5Original ==
  /\ (pc = "revisions" /\ \A i \in 1..Len(fetched) : fetched[i].archiver # archiver)
       => last = EmptyDict
  /\ \A i \in 1..Len(fetched) : (NumericHit(i) /\ FirstRevision(i)) => Shows(i, 0)

\* C6: with an unregistered identifier anywhere in the metrics list, report ends
\* with the unknown-metric error at that identifier, and no lookup, row or output
\* has happened or ever happens.
C6Theorem ==
  /\ Unknowns # {} =>
       /\ pc \in {"resolve", "raised"}
       /\ \A k \in Unknowns : mi <= k
       /\ NothingDone
  /\ pc = "raised" => (mi \in Unknowns /\ NothingDone)

C6Witness ==
  pc = "raised" /\ Len(metrics) = 2 /\ mi = 2 /\ Len(metric_metas) = 1

\* the colour codes the claim names
Green == 32
Red == 31
Yellow == 33

Measure(i) == resolve_metric(<<MetaOf(i).operator, MetaOf(i).key>>).measure

GoodOf(measure) ==
  CASE measure = "AimHigh" -> Green
    [] measure = "AimLow" -> Red
    [] measure = "Informational" -> Yellow

BadOf(measure) ==
  CASE measure = "AimHigh" -> Red
    [] measure = "AimLow" -> Green
    [] measure = "Informational" -> Yellow

\* a float takes part in the deltas of the key of lookup i
FloatInvolved(i) ==
  \E c \in 1..Len(metric_metas) :
    metric_metas[c].key = MetaOf(i).key /\ metric_metas[c].type = "float"

\* the deltas a value can show: 0, or its difference from a non-zero number
Deltas(val) == {0} \cup { val.v - x : x \in Numbers \ {0} }

DistinctKeys ==
  \A c, e \in 1..Len(metric_metas) : c # e => metric_metas[c].key # metric_metas[e].key

\* the cell of lookup i is "<value> (<delta>)" with the delta d decorated as the
\* claim says, a zero delta being one of the texts in zeros
Decorated(i, d, zeros) ==
  LET text == IF d = 0 THEN zeros
              ELSE IF d < 0 THEN {Coloured[GoodOf(Measure(i)), d]}
              ELSE {Coloured[BadOf(Measure(i)), d]}
  IN \E t \in text : CellOf(i) = CellText[fetched[i].val.v, t]

\* C7 as stated: a Numeric cell is "<value> (<delta>)", a zero delta the literal
\* "0", a negative one in the good colour, a positive one with "+" in the bad colour.
C7Original ==
  \A i \in 1..Len(fetched) :
    NumericHit(i) => \E d \in Deltas(fetched[i].val) : Decorated(i, d, {"0"})

\* C7 as amended: the same, a zero delta being shown undecorated as "0", or as
\* "0.0" when it is a difference of floats; and with no key shared between metrics
\* the delta decorated is the one against the metric's previous value.
C7Amended ==
  \A i \in 1..Len(fetched) :
    NumericHit(i) =>
      /\ \E d \in Deltas(fetched[i].val) :
           Decorated(i, d, IF FloatInvolved(i) THEN {"0", "0.0"} ELSE {"0"})
      /\ DistinctKeys =>
           LET prev == PrevVal(i) IN
           Decorated(i, Against(fetched[i].val, prev),
                     IF prev.t = "float" /\ prev.v # 0 THEN {"0.0"} ELSE {"0"})

C7Witness ==
  /\ Len(fetched) = 2
  /\ metrics = << <<"raw", "loc">> >>
  /\ Len(data) = 2
  /\ CellOf(1) = "1 (0)"
  /\ CellOf(2) = "2 (ESC[32m+1ESC[0m)"

\* the file the HTML renderer wrote
TheFile == CHOOSE f \in fs.files : TRUE

\* the final component of the output path is a non-empty stem followed by ".html"
HtmlName(out) ==
  LET name == Name(Path(out)) IN
  Len(name) > Len(DotHtml) /\ SubSeq(name, Len(name) - 4, Len(name)) = DotHtml

\* the output string ends in ".html"
EndsInHtml(out) ==
  Len(out) >= Len(DotHtml) /\ SubSeq(out, Len(out) - 4, Len(out)) = DotHtml

\* the file is at the path expected, alone, inside the directory created
WrittenAt(expected) ==
  /\ Cardinality(fs.files) = 1
  /\ TheFile.path = expected
  /\ WithParents(Parent(expected)) \subseteq fs.dirs

ResolvedAs(isFile) ==
  format = "html" =>
    WrittenAt(IF output = NoOutput \/ output = <<>>
              THEN Join(Join(Cwd, Path(WilyReport)), Path(IndexHtml))
              ELSE IF isFile THEN Join(Cwd, Path(output))
              ELSE Join(Join(Cwd, Path(output)), Path(IndexHtml)))

\* C8 as stated: no output gives <cwd>/wily_report/index.html, an output ending
\* in ".html" is the file itself, any other output is a directory holding
\* index.html, and the file is inside the directory created.
C8Original == ResolvedAs(EndsInHtml(output))

\* C8 as amended: the output is the file itself when its final path component is a
\* non-empty stem followed by ".html"; otherwise as stated.
C8Amended == ResolvedAs(HtmlName(output))

C8Witness ==
  /\ pc = "done"
  /\ format = "html"
  /\ output = <<"d", "/", "r">> \o DotHtml
  /\ TheFile.path = [root |-> TRUE, parts |-> << <<"w">>, <<"d">>, <<"r">> \o DotHtml >>]
  /\ [root |-> TRUE, parts |-> << <<"w">>, <<"d">> >>] \in fs.dirs

\* C9: for every archiver the rows are its min(n, stored) most recent revisions,
\* built oldest to newest, and only lookups at those revisions feed the baselines.
C9Theorem ==
  LET wins == Windows
      dates == DataDates
      expected == ExpectedDates(wins)
  IN
  /\ IsPrefix(dates, expected)
  /\ pc \in {"render", "done"} =>
       /\ dates = expected
       /\ \A i \in 1..Len(Archivers) :
            Cardinality({r \in 1..Len(dates) : dates[r] \in Owned(Archivers[i])})
              = Min(n, Cardinality(Owned(Archivers[i])))
  /\ \A i \in 1..Len(fetched) : fetched[i].rev \in WindowOf(wins, fetched[i].archiver)
  /\ \A i, j \in 1..Len(fetched) :
       (i < j /\ fetched[i].archiver = fetched[j].archiver)
         => fetched[i].rev <= fetched[j].rev
  /\ \A key \in DOMAIN last :
       \E i \in 1..Len(fetched) :
         /\ fetched[i].archiver = archiver
         /\ fetched[i].found
         /\ MetaOf(i).key = key
         /\ fetched[i].val = last[key]

C9Witness ==
  /\ pc = "done"
  /\ n = 2
  /\ Cardinality(Owned("git")) = 3
  /\ Len(metrics) = 1
  /\ DataDates = <<2, 3>>

\* C10: the delta of a Numeric metric is against an earlier revision's value of
\* that same metric, also when another operator's metric with the same key is
\* in the metrics list.
C10Original ==
  \A i \in 1..Len(fetched) :
    (NumericHit(i) /\ SharesKey(i)) => Shows(i, Against(fetched[i].val, PrevVal(i)))
====
